---- MODULE Spec2Model ----
(***************************************************************************)
(* Model of combiner.py: the form's main loop, process() with its          *)
(* validation, the Images context manager, combine() and the save step.    *)
(*                                                                         *)
(* Text fields are sequences of one-character strings, so that strip() is  *)
(* computed.  An image is a record [mode, size, data]; data is the         *)
(* row-major sequence of pixels and a pixel is the tuple of its bands.     *)
(***************************************************************************)
EXTENDS Integers, Sequences, FiniteSets, TLC

VARIABLES
    pc,             \* position of the program (main loop / process)
    event,          \* last event returned by window.read()
    values,         \* the form values returned with that event
    metallic,       \* process local: metallic path
    smoothness,     \* process local: smoothness path
    save_file,      \* process local: destination path
    metallic_img,   \* process local, bound by the with statement
    smoothness_img, \* process local, bound by the with statement
    image,          \* process local: the combined texture
    stack,          \* Images.stack: handles registered on the ExitStack
    open_handles,   \* file handles the current Images object holds open
    leaked,         \* an earlier process() call abandoned a handle still open
    exc,            \* exception in flight
    popup,          \* message surfaced by sg.popup in this submission
    choice,         \* event returned by the overwrite prompt
    result,         \* outcome of the latest process() call
    disk            \* file system: path -> content

vars == <<pc, event, values, metallic, smoothness, save_file, metallic_img,
          smoothness_img, image, stack, open_handles, leaked, exc, popup, choice,
          result, disk>>

----------------------------------------------------------------------------
(* Bounds of the pure-function specification.                              *)
MaxWidth == 2

Heights == {1, 2}

----------------------------------------------------------------------------
(* Strings *)

Whitespace == {" "}

RECURSIVE lstrip(_)
lstrip(s) ==
    IF s # <<>> /\ Head(s) \in Whitespace THEN lstrip(Tail(s)) ELSE s

RECURSIVE rstrip(_)
rstrip(s) ==
    IF s # <<>> /\ s[Len(s)] \in Whitespace
    THEN rstrip(SubSeq(s, 1, Len(s) - 1))
    ELSE s

\* a strip() that was forgotten
strip_identity(s) == s

strip(s) == rstrip(lstrip(s))

\* Python truthiness of a str: only the empty string is false
Truthy(v) == v # ""

----------------------------------------------------------------------------
(* Images (PIL) *)

None == [mode |-> "None", size |-> <<0, 0>>, data |-> <<>>]
Absent == [mode |-> "absent", size |-> <<0, 0>>, data |-> <<>>]
Junk == [mode |-> "junk", size |-> <<0, 0>>, data |-> <<>>]

NPixels(size) == size[1] * size[2]

\* Image.new("L", size): a black single-band image
new(size) ==
    [mode |-> "L", size |-> size, data |-> [i \in 1..NPixels(size) |-> <<0>>]]

\* luminance of one pixel in Image.convert("L")
Luma(mode, p) ==
    IF mode = "L"
    THEN p[1]
    ELSE (p[1] * 19595 + p[2] * 38470 + p[3] * 7471 + 32768) \div 65536

\* ImageOps.grayscale(img).getchannel("L")
grayscale(img) ==
    [mode |-> "L", size |-> img.size,
     data |-> [i \in 1..Len(img.data) |-> <<Luma(img.mode, img.data[i])>>]]

\* ImageOps.invert on a single-band image
invert(img) ==
    [mode |-> "L", size |-> img.size,
     data |-> [i \in 1..Len(img.data) |-> <<255 - img.data[i][1]>>]]

\* Image.merge raises ValueError("size mismatch") on bands of unequal size
MergeRaises(bands) == \E i \in 2..Len(bands) : bands[i].size # bands[1].size

\* Image.merge("RGBA", bands)
merge(bands) ==
    [mode |-> "RGBA", size |-> bands[1].size,
     data |-> [i \in 1..Len(bands[1].data) |->
                 <<bands[1].data[i][1], bands[2].data[i][1],
                   bands[3].data[i][1], bands[4].data[i][1]>>]]

\* the four bands combine() hands to Image.merge
CombineBands(m_img, s_img, rough) ==
    LET metallic_gray == grayscale(m_img)
        smoothness_gray == IF rough THEN invert(grayscale(s_img))
                           ELSE grayscale(s_img)
        zero == new(metallic_gray.size)
    IN  <<metallic_gray, zero, zero, smoothness_gray>>

CombineRaises(m_img, s_img, rough) == MergeRaises(CombineBands(m_img, s_img, rough))

\* combine with the red and alpha bands exchanged
combine_swapped(m_img, s_img, rough) ==
    LET b == CombineBands(m_img, s_img, rough)
    IN  merge(<<b[4], b[2], b[3], b[1]>>)

combine(m_img, s_img, rough) == merge(CombineBands(m_img, s_img, rough))

----------------------------------------------------------------------------
(* The file system the session starts with *)

Names == {<<"m">>, <<"s">>, <<"w">>, <<"c">>, <<"j">>, <<"x">>, <<"o">>, <<"n">>}

InitialDisk ==
    [n \in Names |->
       CASE n = <<"m">> -> [mode |-> "L", size |-> <<2, 2>>,
                            data |-> << <<64>>, <<64>>, <<128>>, <<255>> >>]
         [] n = <<"s">> -> [mode |-> "L", size |-> <<2, 2>>,
                            data |-> << <<200>>, <<0>>, <<55>>, <<200>> >>]
         [] n = <<"w">> -> [mode |-> "L", size |-> <<1, 1>>,
                            data |-> << <<128>> >>]
         [] n = <<"c">> -> [mode |-> "RGB", size |-> <<2, 2>>,
                            data |-> << <<255, 0, 0>>, <<0, 255, 0>>,
                                        <<10, 20, 30>>, <<255, 255, 255>> >>]
         [] n = <<"o">> -> [mode |-> "RGBA", size |-> <<2, 2>>,
                            data |-> << <<64, 0, 0, 255>>, <<64, 0, 0, 255>>,
                                        <<64, 0, 0, 255>>, <<64, 0, 0, 255>> >>]
         [] n = <<"j">> -> Junk
         [] OTHER -> Absent]

\* what is stored under a path; a path the disk does not know is absent
Content(path) == IF path \in DOMAIN disk THEN disk[path] ELSE Absent

\* os.path.exists
exists(path) == Content(path) # Absent

\* the exception Image.open(path) raises, if any
OpenError(path) ==
    IF Content(path) = Absent THEN "FileNotFoundError"
    ELSE IF Content(path) = Junk THEN "UnidentifiedImageError"
    ELSE "none"

----------------------------------------------------------------------------
(* Form values a user can submit *)

MetallicTexts == {<<>>, <<" ">>, <<"m", " ">>, <<"w">>, <<"c">>, <<"j">>, <<"x">>}
SmoothnessTexts == {<<>>, <<" ", "s">>, <<"w">>, <<"j">>, <<"x">>, <<"o">>}
SaveTexts == {<<>>, <<" ">>, <<"o">>, <<"n", " ">>, <<"m">>}

FormValues ==
    [metallic : MetallicTexts, nonmetallic : BOOLEAN,
     smoothness : SmoothnessTexts, smooth : BOOLEAN, solid : BOOLEAN,
     saveas : SaveTexts]

DefaultValues ==
    [metallic |-> <<>>, nonmetallic |-> FALSE, smoothness |-> <<>>,
     smooth |-> FALSE, solid |-> FALSE, saveas |-> <<"o">>]

USE_COLOR == 0
USE_SOLID == 1

is_nonmetallic == values.nonmetallic
is_rough == ~values.smooth
mode == IF values.solid THEN USE_SOLID ELSE USE_COLOR

NoPopup == [title |-> "", message |-> "", arg |-> <<>>]
NoException == [type |-> "none", filename |-> <<>>]

\* str(None), as an f-string formats a missing filename
NoneText == <<"N", "o", "n", "e">>

----------------------------------------------------------------------------
(* main(): the form and its event loop *)

Init ==
    /\ pc = "read"
    /\ event = "none"
    /\ values = DefaultValues
    /\ metallic = <<>>
    /\ smoothness = <<>>
    /\ save_file = <<>>
    /\ metallic_img = None
    /\ smoothness_img = None
    /\ image = None
    /\ stack = <<>>
    /\ open_handles = {}
    /\ leaked = FALSE
    /\ exc = NoException
    /\ popup = NoPopup
    /\ choice = ""
    /\ result = "none"
    /\ disk = InitialDisk

\* window.read() returns "submit"; process(values) is entered and binds its
\* locals (lines 72-77).  Handles a previous call abandoned stay open.
Submit ==
    /\ pc = "read"
    /\ \E v \in FormValues :
          /\ values' = v
          /\ metallic' = strip(v.metallic)
          /\ smoothness' = strip(v.smoothness)
          /\ save_file' = strip(v.saveas)
    /\ event' = "submit"
    /\ metallic_img' = None
    /\ smoothness_img' = None
    /\ image' = None
    /\ stack' = <<>>
    /\ leaked' = (leaked \/ open_handles # {})
    /\ open_handles' = {}
    /\ exc' = NoException
    /\ popup' = NoPopup
    /\ choice' = ""
    /\ result' = "running"
    /\ pc' = "validate"
    /\ UNCHANGED disk

\* window.read() returns "cancel": break, window.close()
Cancel ==
    /\ pc = "read"
    /\ event' = "cancel"
    /\ pc' = "closed"
    /\ UNCHANGED <<values, metallic, smoothness, save_file, metallic_img,
                   smoothness_img, image, stack, open_handles, leaked, exc,
                   popup, choice, result, disk>>

\* window.read() returns sg.WIN_CLOSED: break, window.close()
WinClosed ==
    /\ pc = "read"
    /\ event' = "WIN_CLOSED"
    /\ pc' = "closed"
    /\ UNCHANGED <<values, metallic, smoothness, save_file, metallic_img,
                   smoothness_img, image, stack, open_handles, leaked, exc,
                   popup, choice, result, disk>>

----------------------------------------------------------------------------
(* process(): validation *)

NoSaveFile == save_file = <<>>
NoMetallic == metallic = <<>> /\ ~is_nonmetallic
NoSmoothness == mode = USE_COLOR /\ smoothness = <<>>
\* validation without its last check
NoSource_unchecked == FALSE
NoSource == mode = USE_SOLID /\ is_nonmetallic

\* sg.popup(...); return False  -- back in main's loop, the form stays open
Reject(message) ==
    /\ popup' = [title |-> "Oops", message |-> message, arg |-> <<>>]
    /\ result' = "False"
    /\ pc' = "read"
    /\ UNCHANGED <<event, values, metallic, smoothness, save_file,
                   metallic_img, smoothness_img, image, stack, open_handles,
                   leaked, exc, choice, disk>>

RejectNoSaveFile ==
    /\ pc = "validate"
    /\ NoSaveFile
    /\ Reject("You need to specify a save file!")

RejectNoMetallic ==
    /\ pc = "validate"
    /\ ~NoSaveFile
    /\ NoMetallic
    /\ Reject("You need to specify a metallic file (or check Non-metallic)!")

RejectNoSmoothness ==
    /\ pc = "validate"
    /\ ~NoSaveFile /\ ~NoMetallic
    /\ NoSmoothness
    /\ Reject("You need to specify a roughness/smoothness file!")

RejectNoSource ==
    /\ pc = "validate"
    /\ ~NoSaveFile /\ ~NoMetallic /\ ~NoSmoothness
    /\ NoSource
    /\ Reject("You need to specify at least a metallic file or a roughness/smoothness file!")

\* validation passed: normalise the paths and construct Images(metallic,
\* smoothness); __enter__ calls open(), which makes a fresh ExitStack
Accept ==
    /\ pc = "validate"
    /\ ~NoSaveFile /\ ~NoMetallic /\ ~NoSmoothness /\ ~NoSource
    /\ metallic' = IF is_nonmetallic THEN <<>> ELSE metallic
    /\ smoothness' = IF mode = USE_SOLID THEN <<>> ELSE smoothness
    /\ stack' = <<>>
    /\ pc' = "open_metallic"
    /\ UNCHANGED <<event, values, save_file, metallic_img, smoothness_img,
                   image, open_handles, leaked, exc, popup, choice, result,
                   disk>>

----------------------------------------------------------------------------
(* Images.__enter__ / open() *)

\* lines 31-33: the metallic file is skipped when empty, else opened and
\* registered on the ExitStack
OpenMetallic ==
    /\ pc = "open_metallic"
    /\ metallic = <<>> \/ OpenError(metallic) = "none"
    /\ IF metallic = <<>>
       THEN UNCHANGED <<metallic_img, stack, open_handles>>
       ELSE /\ metallic_img' = Content(metallic)
            /\ stack' = Append(stack, <<"metallic", metallic>>)
            /\ open_handles' = open_handles \cup {<<"metallic", metallic>>}
    /\ pc' = "open_smoothness"
    /\ UNCHANGED <<event, values, metallic, smoothness, save_file,
                   smoothness_img, image, leaked, exc, popup, choice, result,
                   disk>>

\* Image.open raises inside __enter__: __exit__ is not called, so
\* stack.close() never runs.  FileNotFoundError carries the filename,
\* UnidentifiedImageError is raised with a message only (filename None).
RaiseInEnter(path) ==
    /\ exc' = [type |-> OpenError(path),
               filename |-> IF OpenError(path) = "FileNotFoundError"
                            THEN path ELSE NoneText]
    /\ pc' = "except"
    /\ UNCHANGED <<event, values, metallic, smoothness, save_file,
                   metallic_img, smoothness_img, image, stack, open_handles,
                   leaked, popup, choice, result, disk>>

OpenMetallicFails ==
    /\ pc = "open_metallic"
    /\ metallic # <<>>
    /\ OpenError(metallic) # "none"
    /\ RaiseInEnter(metallic)

\* lines 34-36
OpenSmoothness ==
    /\ pc = "open_smoothness"
    /\ smoothness = <<>> \/ OpenError(smoothness) = "none"
    /\ IF smoothness = <<>>
       THEN UNCHANGED <<smoothness_img, stack, open_handles>>
       ELSE /\ smoothness_img' = Content(smoothness)
            /\ stack' = Append(stack, <<"smoothness", smoothness>>)
            /\ open_handles' = open_handles \cup {<<"smoothness", smoothness>>}
    /\ pc' = "body"
    /\ UNCHANGED <<event, values, metallic, smoothness, save_file,
                   metallic_img, image, leaked, exc, popup, choice, result,
                   disk>>

OpenSmoothnessFails ==
    /\ pc = "open_smoothness"
    /\ smoothness # <<>>
    /\ OpenError(smoothness) # "none"
    /\ RaiseInEnter(smoothness)

----------------------------------------------------------------------------
(* process(): the with block *)

Range(s) == {s[i] : i \in 1..Len(s)}

\* Images.__exit__ -> close() -> stack.close(): every registered handle
\* is closed
HandlesAfterClose == open_handles \ Range(stack)

\* lines 106-110: placeholders for the channel that was not loaded.
\* None has no .size: with both images None the first branch raises
\* AttributeError, which leaves the with block through __exit__.
Placeholders ==
    /\ pc = "body"
    /\ IF metallic_img = None /\ smoothness_img = None
       THEN /\ exc' = [type |-> "AttributeError", filename |-> NoneText]
            /\ open_handles' = HandlesAfterClose
            /\ stack' = <<>>
            /\ pc' = "except"
            /\ UNCHANGED <<metallic_img, smoothness_img>>
       ELSE /\ metallic_img' = IF metallic_img = None
                               THEN new(smoothness_img.size)
                               ELSE metallic_img
            /\ smoothness_img' = IF smoothness_img = None
                                 THEN invert(new(metallic_img'.size))
                                 ELSE smoothness_img
            /\ pc' = "combine"
            /\ UNCHANGED <<exc, open_handles, stack>>
    /\ UNCHANGED <<event, values, metallic, smoothness, save_file, image,
                   leaked, popup, choice, result, disk>>

\* line 111 and the end of the with block: combine returns, __exit__ closes
CombineReturns ==
    /\ pc = "combine"
    /\ ~CombineRaises(metallic_img, smoothness_img, is_rough)
    /\ image' = combine(metallic_img, smoothness_img, is_rough)
    /\ open_handles' = HandlesAfterClose
    /\ stack' = <<>>
    /\ pc' = "exists"
    /\ UNCHANGED <<event, values, metallic, smoothness, save_file,
                   metallic_img, smoothness_img, leaked, exc, popup, choice,
                   result, disk>>

\* line 111: Image.merge raises ValueError inside combine; the with block
\* is left through __exit__, which closes and does not swallow
CombineFails ==
    /\ pc = "combine"
    /\ CombineRaises(metallic_img, smoothness_img, is_rough)
    /\ exc' = [type |-> "ValueError", filename |-> NoneText]
    /\ open_handles' = HandlesAfterClose
    /\ stack' = <<>>
    /\ pc' = "except"
    /\ UNCHANGED <<event, values, metallic, smoothness, save_file,
                   metallic_img, smoothness_img, image, leaked, popup, choice,
                   result, disk>>

----------------------------------------------------------------------------
(* process(): the except clauses *)

\* sg.popup(...); return False.  The Images object whose __enter__ raised
\* is garbage by now: whether its handles have been finalised when process
\* returns is up to the interpreter's collector, the code closes nothing.
Handle(title, message) ==
    /\ popup' = [title |-> title, message |-> message, arg |-> exc.filename]
    /\ \E reclaimed \in BOOLEAN :
          open_handles' = IF reclaimed THEN {} ELSE open_handles
    /\ result' = "False"
    /\ pc' = "read"
    /\ UNCHANGED <<event, values, metallic, smoothness, save_file,
                   metallic_img, smoothness_img, image, stack, leaked, exc,
                   choice, disk>>

\* the handler without its "return False"
CatchFileNotFound_fallthrough ==
    /\ pc = "except"
    /\ exc.type = "FileNotFoundError"
    /\ popup' = [title |-> "File not found", message |-> "File not found: ",
                 arg |-> exc.filename]
    /\ pc' = "exists"
    /\ UNCHANGED <<event, values, metallic, smoothness, save_file,
                   metallic_img, smoothness_img, image, stack, open_handles,
                   leaked, exc, choice, result, disk>>

\* lines 112-114
CatchFileNotFound ==
    /\ pc = "except"
    /\ exc.type = "FileNotFoundError"
    /\ Handle("File not found", "File not found: ")

\* lines 115-117
CatchUnidentifiedImage ==
    /\ pc = "except"
    /\ exc.type = "UnidentifiedImageError"
    /\ Handle("Not an image", "Not an image: ")

\* any other exception leaves process() and main(): the program ends with
\* a traceback, window.close() is not reached
Propagate ==
    /\ pc = "except"
    /\ exc.type \notin {"FileNotFoundError", "UnidentifiedImageError"}
    /\ result' = "raised"
    /\ pc' = "crashed"
    /\ UNCHANGED <<event, values, metallic, smoothness, save_file,
                   metallic_img, smoothness_img, image, stack, open_handles,
                   leaked, exc, popup, choice, disk>>

----------------------------------------------------------------------------
(* process(): overwrite prompt and save *)

\* the events the "Really?" window can return: its two buttons
\* (disable_close=True leaves no other way out)
PromptEvents == {"Yes", "No"}

\* line 119
CheckExists ==
    /\ pc = "exists"
    /\ pc' = IF exists(save_file) THEN "prompt" ELSE "save"
    /\ UNCHANGED <<event, values, metallic, smoothness, save_file,
                   metallic_img, smoothness_img, image, stack, open_handles,
                   leaked, exc, popup, choice, result, disk>>

\* lines 120-125: choice is the button's event; "if not choice: return False"
Prompt ==
    /\ pc = "prompt"
    /\ \E c \in PromptEvents :
          /\ choice' = c
          /\ IF ~Truthy(c)
             THEN result' = "False" /\ pc' = "read"
             ELSE result' = result /\ pc' = "save"
    /\ UNCHANGED <<event, values, metallic, smoothness, save_file,
                   metallic_img, smoothness_img, image, stack, open_handles,
                   leaked, exc, popup, disk>>

\* lines 127-128 and main's "if process(values): break"; window.close()
Save ==
    /\ pc = "save"
    /\ disk' = [disk EXCEPT ![save_file] = image]
    /\ result' = "True"
    /\ pc' = "closed"
    /\ UNCHANGED <<event, values, metallic, smoothness, save_file,
                   metallic_img, smoothness_img, image, stack, open_handles,
                   leaked, exc, popup, choice>>

----------------------------------------------------------------------------

Next ==
    \/ Submit
    \/ Cancel
    \/ WinClosed
    \/ RejectNoSaveFile
    \/ RejectNoMetallic
    \/ RejectNoSmoothness
    \/ RejectNoSource
    \/ Accept
    \/ OpenMetallic
    \/ OpenMetallicFails
    \/ OpenSmoothness
    \/ OpenSmoothnessFails
    \/ Placeholders
    \/ CombineReturns
    \/ CombineFails
    \/ CatchFileNotFound
    \/ CatchUnidentifiedImage
    \/ Propagate
    \/ CheckExists
    \/ Prompt
    \/ Save

Spec == Init /\ [][Next]_vars

----------------------------------------------------------------------------
(* combine() on its own: every pair of equal-sized grayscale channels *)

MetallicLevels == {64, 128}
SmoothnessLevels == {0, 200}

Sizes == {<<w, h>> : w \in 1..MaxWidth, h \in Heights}

GrayImages(levels, size) ==
    {[mode |-> "L", size |-> size, data |-> d] :
        d \in [1..NPixels(size) -> {<<v>> : v \in levels}]}

InitCombine ==
    /\ pc = "call_combine"
    /\ event = "none"
    /\ values \in {[DefaultValues EXCEPT !.smooth = b] : b \in BOOLEAN}
    /\ metallic = <<>>
    /\ smoothness = <<>>
    /\ save_file = <<>>
    /\ \E size \in Sizes :
          /\ metallic_img \in GrayImages(MetallicLevels, size)
          /\ smoothness_img \in GrayImages(SmoothnessLevels, size)
    /\ image = None
    /\ stack = <<>>
    /\ open_handles = {}
    /\ leaked = FALSE
    /\ exc = NoException
    /\ popup = NoPopup
    /\ choice = ""
    /\ result = "none"
    /\ disk = InitialDisk

CallCombine ==
    /\ pc = "call_combine"
    /\ image' = combine(metallic_img, smoothness_img, is_rough)
    /\ pc' = "combine_returned"
    /\ UNCHANGED <<event, values, metallic, smoothness, save_file,
                   metallic_img, smoothness_img, stack, open_handles, leaked,
                   exc, popup, choice, result, disk>>

NextCombine == CallCombine

SpecCombine == InitCombine /\ [][NextCombine]_vars

----------------------------------------------------------------------------
(* Properties *)

Blank(text) == \A i \in 1..Len(text) : text[i] = " "

IsImage(content) == content.mode \in {"L", "RGB", "RGBA"}

\* the file under path was there, decodable, and is what img holds
LoadedFrom(path, img) ==
    path # <<>> =>
        /\ path \in DOMAIN InitialDisk
        /\ IsImage(InitialDisk[path])
        /\ img = InitialDisk[path]

\* process() has decided on the submission's validity
Decided == event = "submit" /\ pc # "validate"
Rejected == Decided /\ result = "False" /\ popup.title = "Oops"
Accepted == Decided /\ ~Rejected

\* C1: when the destination exists and the overwrite prompt is answered No,
\* the submission aborts silently: process returns False, nothing is saved,
\* the disk is unchanged and no popup is shown.
C1_DeclineAborts ==
    choice = "No" =>
        /\ pc \in {"read", "closed"}
        /\ result = "False"
        /\ popup = NoPopup
        /\ disk = InitialDisk

\* C2: once process() has returned or raised, no image handle is open.
C2_HandlesReleased ==
    pc \in {"read", "closed", "crashed"} => open_handles = {} /\ ~leaked

\* C3: an error ends only the submission: process returns False after a
\* popup and the form stays open; the session ends only on success or on
\* cancel / window close.
C3_ErrorsKeepFormOpen ==
    /\ pc # "crashed"
    /\ pc = "closed" => event \in {"cancel", "WIN_CLOSED"} \/ result = "True"
    /\ exc # NoException /\ pc # "except" =>
          result = "False" /\ popup # NoPopup

\* C4: a submission that validation rejected or whose load failed never
\* reaches the existence check or the save and leaves the disk as it was;
\* the write phase is entered only with every requested image loaded and
\* the combined texture computed.
C4_WriteOnlyAfterLoadAndCombine ==
    /\ (popup # NoPopup \/ exc # NoException) =>
          pc \notin {"exists", "prompt", "save"} /\ disk = InitialDisk
    /\ (pc \in {"exists", "prompt", "save"} \/ disk # InitialDisk) =>
          /\ Accepted
          /\ IF metallic # <<>>
             THEN LoadedFrom(metallic, metallic_img)
             ELSE metallic_img = new(smoothness_img.size)
          /\ IF smoothness # <<>>
             THEN LoadedFrom(smoothness, smoothness_img)
             ELSE smoothness_img = invert(new(metallic_img.size))
          /\ image = combine(metallic_img, smoothness_img, is_rough)

C4_Witness ==
    /\ pc = "read"
    /\ result = "False"
    /\ exc.type = "FileNotFoundError"
    /\ metallic_img # None
    /\ save_file = <<"n">>
    /\ ~exists(save_file)

\* C5: combine(M, S, is_rough) has the inputs' size and at every pixel
\* (R, G, B, A) = (M, 0, 0, S), or (M, 0, 0, 255 - S) when is_rough.
C5_CombinePixels ==
    pc = "combine_returned" =>
        /\ image.mode = "RGBA"
        /\ image.size = metallic_img.size
        /\ image.size = smoothness_img.size
        /\ Len(image.data) = NPixels(image.size)
        /\ \A i \in 1..Len(image.data) :
              image.data[i] =
                  <<metallic_img.data[i][1], 0, 0,
                    IF is_rough THEN 255 - smoothness_img.data[i][1]
                    ELSE smoothness_img.data[i][1]>>

C5_Witness ==
    /\ pc = "combine_returned"
    /\ is_rough
    /\ metallic_img.size = <<2, 2>>
    /\ image.data[1] = <<128, 0, 0, 55>>

\* C6: in solid fill mode the produced texture has alpha 255 at every
\* pixel and red equal to the metallic grey value, whatever the Smoothness
\* checkbox says.
C6_SolidFillAlphaIsOne ==
    (mode = USE_SOLID /\ image # None) =>
        \A i \in 1..Len(image.data) :
            /\ image.data[i][4] = 255
            /\ image.data[i][1] = grayscale(metallic_img).data[i][1]

\* C7: whenever process() calls combine, the two images have the same size.
C7_SameSizeAtCombine ==
    pc = "combine" => metallic_img.size = smoothness_img.size

\* C8: whenever validation passes and Images(metallic, smoothness) is
\* constructed, one of the two normalised paths is non-empty, so the
\* placeholder branches never see both images None.
C8_NeverBothAbsent ==
    /\ pc \in {"open_metallic", "open_smoothness", "body"} =>
          metallic # <<>> \/ smoothness # <<>>
    /\ pc = "body" => ~(metallic_img = None /\ smoothness_img = None)
    /\ exc.type # "AttributeError"

C8_Witness ==
    /\ pc = "body"
    /\ metallic_img = None
    /\ values.nonmetallic
    /\ smoothness_img # None

\* C9: with a destination given, solid mode accepts exactly when a usable
\* source remains (a metallic path with Non-metallic unchecked, or a
\* smoothness path); color mode rejects when the smoothness path is empty
\* or the metallic path is empty with Non-metallic unchecked.
C9_SolidAcceptsAnyUsableSource ==
    (Decided /\ ~Blank(values.saveas)) =>
        IF values.solid
        THEN Accepted <=>
                \/ ~Blank(values.metallic) /\ ~values.nonmetallic
                \/ ~Blank(values.smoothness)
        ELSE (\/ Blank(values.smoothness)
              \/ Blank(values.metallic) /\ ~values.nonmetallic) => Rejected

\* C10: a submission with an empty or whitespace-only destination is
\* rejected before any image is opened, combined or written, and the form
\* stays open.
C10_EmptyDestinationRejected ==
    (event = "submit" /\ Blank(values.saveas)) =>
        /\ \/ pc = "validate" /\ result = "running" /\ popup = NoPopup
           \/ /\ pc = "read"
              /\ result = "False"
              /\ popup.message = "You need to specify a save file!"
        /\ open_handles = {}
        /\ stack = <<>>
        /\ metallic_img = None
        /\ smoothness_img = None
        /\ image = None
        /\ disk = InitialDisk

C10_Witness ==
    /\ event = "submit"
    /\ values.saveas = <<" ">>
    /\ values.metallic = <<"m", " ">>
    /\ pc = "read"
    /\ result = "False"
====
